---- MODULE Spec2Model ----
(***************************************************************************)
(* Model of app/get_tweets_api.py: the GetTweetsAPI client.                *)
(*                                                                         *)
(* Construction (__init__) is a chain of four blocking calls: the three    *)
(* GetTwitterValues accessors and the UserByScreenName lookup.  Each call  *)
(* is one step of the model.  get_tweets is one step: one timeline request *)
(* followed by the parsing, sorting, slicing and text normalisation of the *)
(* reply.                                                                  *)
(*                                                                         *)
(* Strings that the code takes apart (dictionary keys handed to int(),     *)
(* tweet texts handed to splitlines()) are sequences of characters.        *)
(* Messages are sequences of words.  A fixed field name is the one-word    *)
(* sequence <<name>>.                                                      *)
(***************************************************************************)
EXTENDS Integers, Sequences, FiniteSets, TLC

VARIABLES
    pc,            \* position of the constructor / life of the instance
    user,          \* self.user
    l_gt,          \* local gt of __get_twitter_values
    l_bearer,      \* local bearer_token of __get_twitter_values
    gt,            \* self.gt
    bearer_token,  \* self.bearer_token
    query_id,      \* self.query_id
    headers,       \* self.headers
    user_id,       \* self.user_id
    assigned,      \* names of the instance attributes that exist
    log,           \* calls issued to the collaborators, in order
    exc,           \* exception the last operation raised to its caller
    inner,         \* exception the token provider raised, if any
    looked,        \* reply the lookup request got
    timeline,      \* what the remote service answers a timeline request
    seen,          \* reply the last get_tweets call got
    count,         \* count argument of the last get_tweets call
    ret,           \* value the last get_tweets call returned
    nCalls,        \* number of get_tweets calls made
    nFailed        \* number of get_tweets calls that raised

vars == <<pc, user, l_gt, l_bearer, gt, bearer_token, query_id, headers,
          user_id, assigned, log, exc, inner, looked, timeline, seen, count,
          ret, nCalls, nFailed>>

fields == <<user, gt, bearer_token, query_id, headers, user_id, assigned>>

----------------------------------------------------------------------------
(* Bounds *)

MaxPosts == 2      \* entries of a generated posts collection
MaxCalls == 2      \* get_tweets calls in one behaviour
MaxTextLen == 3    \* characters of a generated full_text

----------------------------------------------------------------------------
(* Exceptions *)

Exc(type, msg) == [type |-> type, msg |-> msg]

NoExc == Exc("none", <<>>)

FailedToGetTweetsException(msg) == Exc("FailedToGetTweetsException", msg)

FailedToGetTwitterValueException(msg) ==
    Exc("FailedToGetTwitterValueException", msg)

(* '<prefix>%s' % (str(e)) *)
Format(prefix, arg) == <<prefix>> \o arg

----------------------------------------------------------------------------
(* JSON values, as r.json() yields them *)

JNull == [t |-> "null"]

JStr(s) == [t |-> "str", s |-> s]

JObj(f) == [t |-> "obj", f |-> f]

K(name) == <<name>>

EmptyObj == JObj([k \in {} |-> JNull])

Obj1(k, v) == JObj([x \in {k} |-> v])

Value(v) == [ok |-> TRUE, v |-> v, err |-> "none"]

Raises(err) == [ok |-> FALSE, v |-> JNull, err |-> err]

(* v[k] of Python, k a string: a dict gives the value or KeyError, a str,  *)
(* a list, None or a number gives TypeError.                               *)
Subscript(v, k) ==
    IF v.t = "obj"
    THEN IF k \in DOMAIN v.f THEN Value(v.f[k]) ELSE Raises("KeyError")
    ELSE Raises("TypeError")

----------------------------------------------------------------------------
(* int(x) and str(x) of Python, on sequences of characters *)

DigitChars == <<"0", "1", "2", "3", "4", "5", "6", "7", "8", "9">>

Digits == {DigitChars[i] : i \in 1..Len(DigitChars)}

DigitVal(c) == (CHOOSE i \in 1..Len(DigitChars) : DigitChars[i] = c) - 1

Whitespace == {" ", "\t", "\n", "\r", "\f"}

RECURSIVE LStrip(_)
LStrip(s) ==
    IF s # <<>> /\ Head(s) \in Whitespace THEN LStrip(Tail(s)) ELSE s

RECURSIVE RStrip(_)
RStrip(s) ==
    IF s # <<>> /\ s[Len(s)] \in Whitespace
    THEN RStrip(SubSeq(s, 1, Len(s) - 1))
    ELSE s

(* the digit part of an integer literal: digits, with single underscores   *)
(* allowed between two digits                                              *)
IsDigitPart(d) ==
    /\ d # <<>>
    /\ \A i \in 1..Len(d) : d[i] \in Digits \cup {"_"}
    /\ d[1] # "_"
    /\ d[Len(d)] # "_"
    /\ \A i \in 1..(Len(d) - 1) : ~(d[i] = "_" /\ d[i + 1] = "_")

RECURSIVE DigitPartVal(_, _)
DigitPartVal(d, acc) ==
    IF d = <<>> THEN acc
    ELSE IF Head(d) = "_" THEN DigitPartVal(Tail(d), acc)
    ELSE DigitPartVal(Tail(d), 10 * acc + DigitVal(Head(d)))

NoInt == [ok |-> FALSE, v |-> 0]

(* int(x): surrounding whitespace is dropped, one sign is allowed, leading *)
(* zeros are allowed; anything else is a ValueError (ok = FALSE).          *)
PyInt(x) ==
    LET s == RStrip(LStrip(x))
        signed == s # <<>> /\ Head(s) \in {"+", "-"}
        d == IF signed THEN Tail(s) ELSE s
    IN  IF ~IsDigitPart(d) THEN NoInt
        ELSE [ok |-> TRUE,
              v |-> IF signed /\ Head(s) = "-"
                    THEN 0 - DigitPartVal(d, 0)
                    ELSE DigitPartVal(d, 0)]

RECURSIVE Decimal(_)
Decimal(n) ==
    IF n < 10 THEN <<DigitChars[n + 1]>>
    ELSE Decimal(n \div 10) \o <<DigitChars[(n % 10) + 1]>>

PyStrUnsigned(n) == IF n < 0 THEN Decimal(0 - n) ELSE Decimal(n)

(* str(x) of an int *)
PyStr(n) == IF n < 0 THEN <<"-">> \o Decimal(0 - n) ELSE Decimal(n)

----------------------------------------------------------------------------
(* list operations of get_tweets *)

RECURSIVE InsertDesc(_, _)
InsertDesc(x, s) ==
    IF s = <<>> THEN <<x>>
    ELSE IF x >= Head(s) THEN <<x>> \o s
    ELSE <<Head(s)>> \o InsertDesc(x, Tail(s))

RECURSIVE InsertAsc(_, _)
InsertAsc(x, s) ==
    IF s = <<>> THEN <<x>>
    ELSE IF x <= Head(s) THEN <<x>> \o s
    ELSE <<Head(s)>> \o InsertAsc(x, Tail(s))

RECURSIVE SortAsc(_)
SortAsc(s) ==
    IF s = <<>> THEN <<>> ELSE InsertAsc(Head(s), SortAsc(Tail(s)))

(* tweet_ids.sort(reverse=True) *)
RECURSIVE SortDesc(_)
SortDesc(s) ==
    IF s = <<>> THEN <<>> ELSE InsertDesc(Head(s), SortDesc(Tail(s)))

Min(a, b) == IF a < b THEN a ELSE b

Max(a, b) == IF a > b THEN a ELSE b

SliceOneMore(s, n) ==
    SubSeq(s, 1, IF n < 0 THEN Max(Len(s) + n + 1, 0) ELSE Min(n + 1, Len(s)))

(* s[:n] of Python: a negative n counts from the end *)
PySlice(s, n) ==
    SubSeq(s, 1, IF n < 0 THEN Max(Len(s) + n, 0) ELSE Min(n, Len(s)))

----------------------------------------------------------------------------
(* ' '.join(text.splitlines()) *)

(* line boundaries of str.splitlines; \v, \x1c-\x1e, \x85, \u2028 and       *)
(* \u2029 are boundaries too and behave as \f does                          *)
LineBreaks == {"\n", "\r", "\f"}

RECURSIVE EolFrom(_, _, _)
EolFrom(s, j, breaks) ==
    IF j > Len(s) \/ s[j] \in breaks THEN j ELSE EolFrom(s, j + 1, breaks)

RECURSIVE SplitOnLfFrom(_, _)
SplitOnLfFrom(s, i) ==
    IF i > Len(s) THEN <<>>
    ELSE LET eol == EolFrom(s, i, {"\n"})
         IN  <<SubSeq(s, i, eol - 1)>> \o SplitOnLfFrom(s, eol + 1)

(* str.splitlines from position i: a line ends at \n, \r or \r\n (one      *)
(* break), the breaks are dropped, and a break at the very end opens no    *)
(* further line.                                                           *)
RECURSIVE SplitlinesFrom(_, _)
SplitlinesFrom(s, i) ==
    IF i > Len(s) THEN <<>>
    ELSE LET eol == EolFrom(s, i, LineBreaks)
             next == IF eol > Len(s) THEN eol
                     ELSE IF s[eol] = "\r" /\ eol + 1 <= Len(s)
                             /\ s[eol + 1] = "\n"
                          THEN eol + 2
                          ELSE eol + 1
         IN  <<SubSeq(s, i, eol - 1)>> \o SplitlinesFrom(s, next)

SplitOnLf(s) == SplitOnLfFrom(s, 1)

Splitlines(s) == SplitlinesFrom(s, 1)

RECURSIVE Join(_, _)
Join(sep, parts) ==
    IF parts = <<>> THEN <<>>
    ELSE IF Len(parts) = 1 THEN parts[1]
    ELSE parts[1] \o sep \o Join(sep, Tail(parts))

Normalize(text) == Join(<<" ">>, Splitlines(text))

----------------------------------------------------------------------------
(* Replies of the transport: s_twitter.get(...) followed by r.json()       *)
(* either raises (connection error, timeout, body that is not JSON) or     *)
(* yields a JSON value.                                                    *)

Reply(json) == [kind |-> "json", cause |-> <<>>, json |-> json]

RequestRaises(cause) == [kind |-> "raise", cause |-> cause, json |-> JNull]

RequestCauses == {<<"connection", "timed", "out">>,
                  <<"Expecting", "value">>}

----------------------------------------------------------------------------
(* get_tweets: what the caller gets *)

NoList == [some |-> FALSE, v |-> <<>>]

List(v) == [some |-> TRUE, v |-> v]

Returned(v) == [exc |-> NoExc, ret |-> List(v)]

Raised(e) == [exc |-> e, ret |-> NoList]

(* the except clause of the second try block: only KeyError is caught *)
TweetsExcept(err) ==
    IF err = "KeyError"
    THEN Raised(FailedToGetTweetsException(<<"Failed to get tweets">>))
    ELSE Raised(Exc(err, <<>>))

(* the keys of the dict, in the dict's own order *)
RECURSIVE KeyList(_)
KeyList(S) ==
    IF S = {} THEN <<>>
    ELSE LET k == CHOOSE x \in S : TRUE IN <<k>> \o KeyList(S \ {k})

RECURSIVE ListComprehensionPartial(_, _, _)
ListComprehensionPartial(tweets_json, ids, acc) ==
    IF ids = <<>> THEN Returned(acc)
    ELSE LET post == Subscript(tweets_json, PyStr(Head(ids)))
             text == Subscript(post.v, K("full_text"))
         IN  IF ~post.ok \/ ~text.ok
             THEN [exc |-> FailedToGetTweetsException(
                               <<"Failed to get tweets">>),
                   ret |-> List(acc)]
             ELSE IF text.v.t # "str" THEN TweetsExcept("AttributeError")
             ELSE ListComprehensionPartial(tweets_json, Tail(ids),
                      Append(acc, Normalize(text.v.s)))

(* [' '.join(tweets_json[str(x)]['full_text'].splitlines()) for x in ids]  *)
(* the list under construction is lost when an element raises              *)
RECURSIVE ListComprehension(_, _, _)
ListComprehension(tweets_json, ids, acc) ==
    IF ids = <<>> THEN Returned(acc)
    ELSE LET post == Subscript(tweets_json, PyStr(Head(ids)))
         IN  IF ~post.ok THEN TweetsExcept(post.err)
             ELSE LET text == Subscript(post.v, K("full_text"))
                  IN  IF ~text.ok THEN TweetsExcept(text.err)
                      ELSE IF text.v.t # "str"
                           THEN TweetsExcept("AttributeError")
                      ELSE ListComprehension(tweets_json, Tail(ids),
                               Append(acc, Normalize(text.v.s)))

(* the second try block of get_tweets *)
TweetsBody(timeline_json, cnt) ==
    LET go == Subscript(timeline_json, K("globalObjects"))
    IN  IF ~go.ok THEN TweetsExcept(go.err)
        ELSE LET tw == Subscript(go.v, K("tweets"))
             IN  IF ~tw.ok THEN TweetsExcept(tw.err)
                 ELSE IF tw.v.t # "obj" THEN TweetsExcept("AttributeError")
                 ELSE LET keys == KeyList(DOMAIN tw.v.f)
                      IN  IF \E i \in 1..Len(keys) : ~PyInt(keys[i]).ok
                          THEN TweetsExcept("ValueError")
                          ELSE LET ids == [i \in 1..Len(keys) |->
                                              PyInt(keys[i]).v]
                                   tweet_ids == SortDesc(ids)
                               IN  ListComprehension(tw.v,
                                       PySlice(tweet_ids, cnt), <<>>)

(* get_tweets, given the reply to its request *)
GetTweetsResult(reply, cnt) ==
    IF reply.kind = "raise"
    THEN Raised(FailedToGetTweetsException(
             Format("Failed to get tweets, request excepted with: ",
                    reply.cause)))
    ELSE TweetsBody(reply.json, cnt)

----------------------------------------------------------------------------
(* __get_user_id, given the reply to its request *)

UserIdSilent(reply) ==
    IF reply.kind = "raise"
    THEN [exc |-> FailedToGetTweetsException(
                      <<"Failed to get the user id">>), v |-> JNull]
    ELSE LET data == Subscript(reply.json, K("data"))
             usr == Subscript(data.v, K("user"))
             rest == Subscript(usr.v, K("rest_id"))
         IN  IF data.ok /\ usr.ok /\ rest.ok
             THEN [exc |-> NoExc, v |-> rest.v]
             ELSE [exc |-> NoExc, v |-> JNull]

UserIdExcept(err) ==
    IF err = "KeyError"
    THEN [exc |-> FailedToGetTweetsException(
             <<"Failed to get the user id, could not find user rest_id in GraphQL response">>),
          v |-> JNull]
    ELSE [exc |-> Exc(err, <<>>), v |-> JNull]

UserIdResult(reply) ==
    IF reply.kind = "raise"
    THEN [exc |-> FailedToGetTweetsException(
                      Format("Failed to get the user id, request excepted with: ",
                             reply.cause)),
          v |-> JNull]
    ELSE LET data == Subscript(reply.json, K("data"))
         IN  IF ~data.ok THEN UserIdExcept(data.err)
             ELSE LET usr == Subscript(data.v, K("user"))
                  IN  IF ~usr.ok THEN UserIdExcept(usr.err)
                      ELSE LET rest == Subscript(usr.v, K("rest_id"))
                           IN  IF ~rest.ok THEN UserIdExcept(rest.err)
                               ELSE [exc |-> NoExc, v |-> rest.v]

----------------------------------------------------------------------------
(* Inputs *)

Users == {"jack", "nasa"}

GuestTokens == {"gt-1", "gt-2"}

BearerTokens == {"AAAA", "BBBB"}

QueryIds == {"qid-1"}

ValueCauses == {<<"pattern", "not", "found">>}

Got(v) == [ok |-> TRUE, v |-> v, e |-> NoExc]

Unavailable(cause) ==
    [ok |-> FALSE, v |-> "", e |-> FailedToGetTwitterValueException(cause)]

(* what an accessor of GetTwitterValues does: a string or the exception *)
Accessor(values) ==
    {Got(v) : v \in values} \cup {Unavailable(c) : c \in ValueCauses}

RestIds == {JStr(<<"4", "2">>), JStr(<<"7">>), JNull}

UserReply(u) == Reply(Obj1(K("data"), Obj1(K("user"), u)))

LookupReplies ==
    {RequestRaises(c) : c \in RequestCauses}
    \cup {Reply(JNull), Reply(EmptyObj),
          Reply(Obj1(K("data"), JNull)), Reply(Obj1(K("data"), EmptyObj)),
          UserReply(JNull), UserReply(EmptyObj)}
    \cup {UserReply(Obj1(K("rest_id"), id)) : id \in RestIds}

Post(text) == Obj1(K("full_text"), JStr(text))

TimelineOf(posts) ==
    Reply(Obj1(K("globalObjects"), Obj1(K("tweets"), JObj(posts))))

TextA == <<"a", "\n", "b">>

TextB == <<"c">>

(* replies that are not a posts collection *)
ShapeReplies ==
    {RequestRaises(c) : c \in RequestCauses}
    \cup {Reply(JNull), Reply(EmptyObj),
          Reply(Obj1(K("globalObjects"), JNull)),
          Reply(Obj1(K("globalObjects"), EmptyObj)),
          Reply(Obj1(K("globalObjects"), Obj1(K("tweets"), JNull)))}

SampleTimelines ==
    ShapeReplies
    \cup {TimelineOf([k \in {} |-> JNull]),
          TimelineOf((<<"2">> :> Post(TextA)) @@ (<<"1", "0">> :> Post(TextB))),
          TimelineOf((<<"2">> :> Post(TextA)) @@ (<<"1">> :> EmptyObj)),
          TimelineOf(<<"x">> :> Post(TextA))}

KeyPool == {<<"2">>, <<"1", "0">>, <<"7">>, <<"0", "7">>, <<"-", "1">>,
            <<"x">>}

PostPool == {Post(TextA), Post(TextB), EmptyObj, JStr(<<"a">>)}

RECURSIVE KeySets(_)
KeySets(n) ==
    IF n = 0 THEN {{}}
    ELSE LET smaller == KeySets(n - 1)
         IN  smaller \cup {s \cup {k} : s \in smaller, k \in KeyPool}

Collections == UNION {[S -> PostPool] : S \in KeySets(MaxPosts)}

TextChars == {"a", " ", "\n", "\r"}

Texts == UNION {[1..n -> TextChars] : n \in 0..MaxTextLen}

FetchTimelines ==
    ShapeReplies
    \cup {TimelineOf(p) : p \in Collections}
    \cup {TimelineOf(<<"1">> :> Post(t)) : t \in Texts}
    \cup {TimelineOf(<<"1">> :> Obj1(K("full_text"), JNull))}

Counts == (0 - MaxPosts)..(MaxPosts + 1)

----------------------------------------------------------------------------
(* State *)

NoReply == [kind |-> "none", cause |-> <<>>, json |-> JNull]

NoHeaders == [k \in {} |-> <<>>]

(* the dict of lines 30-34; 'Bearer %s' % (self.bearer_token) *)
Headers(g, b) ==
    ("x-guest-token" :> <<g>>)
    @@ ("authorization" :> Format("Bearer ", <<b>>))
    @@ ("content-type" :> <<"application/json">>)

Init ==
    /\ pc = "get_guest_token"
    /\ user \in Users
    /\ l_gt = ""
    /\ l_bearer = ""
    /\ gt = ""
    /\ bearer_token = ""
    /\ query_id = ""
    /\ headers = NoHeaders
    /\ user_id = JNull
    /\ assigned = {"user"}
    /\ log = <<>>
    /\ exc = NoExc
    /\ inner = NoExc
    /\ looked = NoReply
    /\ timeline \in SampleTimelines
    /\ seen = NoReply
    /\ count = 0
    /\ ret = NoList
    /\ nCalls = 0
    /\ nFailed = 0

(* a constructed client, facing any of the generated timelines *)
InitFetch ==
    /\ pc = "ready"
    /\ user = "jack"
    /\ l_gt = "gt-1"
    /\ l_bearer = "AAAA"
    /\ gt = "gt-1"
    /\ bearer_token = "AAAA"
    /\ query_id = "qid-1"
    /\ headers = Headers("gt-1", "AAAA")
    /\ user_id = JStr(<<"4", "2">>)
    /\ assigned = {"user", "gt", "bearer_token", "query_id", "s_twitter",
                   "headers", "user_id"}
    /\ log = <<"get_guest_token", "get_bearer_token", "get_query_id",
               "UserByScreenName">>
    /\ exc = NoExc
    /\ inner = NoExc
    /\ looked = UserReply(Obj1(K("rest_id"), JStr(<<"4", "2">>)))
    /\ timeline \in FetchTimelines
    /\ seen = NoReply
    /\ count = 0
    /\ ret = NoList
    /\ nCalls = 0
    /\ nFailed = 0

----------------------------------------------------------------------------
(* Construction *)

ValuesExceptSwallow(e) ==
    /\ pc' = "get_user_id"
    /\ exc' = NoExc
    /\ inner' = e

(* lines 54-55: the provider's exception ends the constructor *)
ValuesExcept(e) ==
    /\ pc' = "failed"
    /\ exc' = FailedToGetTweetsException(e.msg)
    /\ inner' = e

(* line 51 *)
GetGuestToken ==
    /\ pc = "get_guest_token"
    /\ log' = Append(log, "get_guest_token")
    /\ \E o \in Accessor(GuestTokens) :
          IF o.ok
          THEN /\ l_gt' = o.v
               /\ pc' = "get_bearer_token"
               /\ UNCHANGED <<exc, inner>>
          ELSE /\ ValuesExcept(o.e)
               /\ UNCHANGED l_gt
    /\ UNCHANGED <<fields, l_bearer, looked, timeline, seen, count, ret,
                   nCalls, nFailed>>

(* line 52 *)
GetBearerToken ==
    /\ pc = "get_bearer_token"
    /\ log' = Append(log, "get_bearer_token")
    /\ \E o \in Accessor(BearerTokens) :
          IF o.ok
          THEN /\ l_bearer' = o.v
               /\ pc' = "get_query_id"
               /\ UNCHANGED <<exc, inner>>
          ELSE /\ ValuesExcept(o.e)
               /\ UNCHANGED l_bearer
    /\ UNCHANGED <<fields, l_gt, looked, timeline, seen, count, ret, nCalls,
                   nFailed>>

(* line 53, and on success the return of line 56 and lines 28-34 *)
GetQueryId ==
    /\ pc = "get_query_id"
    /\ log' = Append(log, "get_query_id")
    /\ \E o \in Accessor(QueryIds) :
          IF o.ok
          THEN /\ gt' = l_gt
               /\ bearer_token' = l_bearer
               /\ query_id' = o.v
               /\ headers' = Headers(l_gt, l_bearer)
               /\ assigned' = assigned \cup {"gt", "bearer_token",
                                  "query_id", "s_twitter", "headers"}
               /\ pc' = "get_user_id"
               /\ UNCHANGED <<exc, inner>>
          ELSE /\ ValuesExcept(o.e)
               /\ UNCHANGED <<gt, bearer_token, query_id, headers, assigned>>
    /\ UNCHANGED <<user, user_id, l_gt, l_bearer, looked, timeline, seen,
                   count, ret, nCalls, nFailed>>

(* line 35: __get_user_id and the assignment of its result *)
GetUserId ==
    /\ pc = "get_user_id"
    /\ log' = Append(log, "UserByScreenName")
    /\ \E reply \in LookupReplies :
          LET o == UserIdResult(reply)
          IN  /\ looked' = reply
              /\ exc' = o.exc
              /\ IF o.exc = NoExc
                 THEN /\ user_id' = o.v
                      /\ assigned' = assigned \cup {"user_id"}
                      /\ pc' = "ready"
                 ELSE /\ pc' = "failed"
                      /\ UNCHANGED <<user_id, assigned>>
    /\ UNCHANGED <<user, gt, bearer_token, query_id, headers, l_gt, l_bearer,
                   inner, timeline, seen, count, ret, nCalls, nFailed>>

----------------------------------------------------------------------------
(* get_tweets *)

RequestsWithRetry(o) ==
    IF o.exc = NoExc THEN <<"timeline">> ELSE <<"timeline", "timeline">>

(* line 128: the requests one call issues *)
Requests(o) == <<"timeline">>

GetTweetsRefreshing ==
    /\ pc = "ready"
    /\ nCalls < MaxCalls
    /\ \E c \in Counts, g \in GuestTokens :
          LET o == GetTweetsResult(timeline, c)
          IN  /\ log' = log \o <<"get_guest_token">> \o Requests(o)
              /\ gt' = g
              /\ headers' = Headers(g, bearer_token)
              /\ seen' = timeline
              /\ count' = c
              /\ exc' = o.exc
              /\ ret' = o.ret
              /\ nCalls' = nCalls + 1
              /\ nFailed' = IF o.exc = NoExc THEN nFailed ELSE nFailed + 1
    /\ UNCHANGED <<pc, user, bearer_token, query_id, user_id, assigned, l_gt,
                   l_bearer, inner, looked, timeline>>

(* lines 100-144 *)
GetTweets ==
    /\ pc = "ready"
    /\ nCalls < MaxCalls
    /\ \E c \in Counts :
          LET o == GetTweetsResult(timeline, c)
          IN  /\ log' = log \o Requests(o)
              /\ seen' = timeline
              /\ count' = c
              /\ exc' = o.exc
              /\ ret' = o.ret
              /\ nCalls' = nCalls + 1
              /\ nFailed' = IF o.exc = NoExc THEN nFailed ELSE nFailed + 1
    /\ UNCHANGED <<pc, fields, l_gt, l_bearer, inner, looked, timeline>>

(* the remote service comes to answer differently *)
RemoteUpdate ==
    /\ pc = "ready"
    /\ \E t \in SampleTimelines : t # timeline /\ timeline' = t
    /\ UNCHANGED <<pc, fields, l_gt, l_bearer, log, exc, inner, looked, seen,
                   count, ret, nCalls, nFailed>>

Next ==
    \/ GetGuestToken
    \/ GetBearerToken
    \/ GetQueryId
    \/ GetUserId
    \/ GetTweets
    \/ RemoteUpdate

Spec == Init /\ [][Next]_vars

NextFetch == GetTweets

SpecFetch == InitFetch /\ [][NextFetch]_vars

----------------------------------------------------------------------------
(* Vocabulary of the properties *)

Called == nCalls > 0

(* the reply is JSON and globalObjects.tweets is an object *)
HasPosts(reply) ==
    /\ reply.kind = "json"
    /\ reply.json.t = "obj"
    /\ K("globalObjects") \in DOMAIN reply.json.f
    /\ reply.json.f[K("globalObjects")].t = "obj"
    /\ K("tweets") \in DOMAIN reply.json.f[K("globalObjects")].f
    /\ reply.json.f[K("globalObjects")].f[K("tweets")].t = "obj"

Posts(reply) == reply.json.f[K("globalObjects")].f[K("tweets")].f

(* the reply is a JSON object in which a key of the path is missing *)
PathAbsent(reply) ==
    /\ reply.kind = "json"
    /\ reply.json.t = "obj"
    /\ \/ K("globalObjects") \notin DOMAIN reply.json.f
       \/ /\ reply.json.f[K("globalObjects")].t = "obj"
          /\ K("tweets") \notin DOMAIN reply.json.f[K("globalObjects")].f

HasText(post) ==
    /\ post.t = "obj"
    /\ K("full_text") \in DOMAIN post.f
    /\ post.f[K("full_text")].t = "str"

LacksText(post) == post.t = "obj" /\ K("full_text") \notin DOMAIN post.f

TextOf(post) == post.f[K("full_text")].s

(* a canonical decimal integer: "0", or digits that do not start with 0,   *)
(* with an optional minus sign in front of a non-zero number               *)
IsCanonical(k) ==
    LET d == IF k # <<>> /\ Head(k) = "-" THEN Tail(k) ELSE k
    IN  /\ d # <<>>
        /\ \A i \in 1..Len(d) : d[i] \in Digits
        /\ Len(d) > 1 => d[1] # "0"
        /\ Head(k) = "-" => d[1] # "0"

RECURSIVE DigitsValue(_)
DigitsValue(d) ==
    IF d = <<>> THEN 0
    ELSE 10 * DigitsValue(SubSeq(d, 1, Len(d) - 1)) + DigitVal(d[Len(d)])

(* the number a canonical key denotes *)
IdOf(k) ==
    IF Head(k) = "-" THEN 0 - DigitsValue(Tail(k)) ELSE DigitsValue(k)

WellFormed(reply) ==
    /\ HasPosts(reply)
    /\ \A k \in DOMAIN Posts(reply) :
          IsCanonical(k) /\ HasText(Posts(reply)[k])

NumPosts(reply) == Cardinality(DOMAIN Posts(reply))

(* position of key k when the keys are listed by descending number *)
Rank(reply, k) ==
    Cardinality({j \in DOMAIN Posts(reply) : IdOf(j) > IdOf(k)}) + 1

IsBreak(c) == c \in {"\n", "\r"}

NotBreak(c) == ~IsBreak(c)

HasBreak(text) == \E i \in 1..Len(text) : IsBreak(text[i])

RECURSIVE IsSubseq(_, _)
IsSubseq(a, b) ==
    IF a = <<>> THEN TRUE
    ELSE IF b = <<>> THEN FALSE
    ELSE IF Head(a) = Head(b) THEN IsSubseq(Tail(a), Tail(b))
    ELSE IsSubseq(a, Tail(b))

(* word sequence a occurs in b, contiguously *)
Includes(b, a) ==
    \E i \in 0..(Len(b) - Len(a)) : SubSeq(b, i + 1, i + Len(a)) = a

Occurrences(s, x) == Cardinality({i \in 1..Len(s) : s[i] = x})

----------------------------------------------------------------------------
(* Properties of get_tweets, checked under SpecFetch *)

(* C2: for count >= 0 and a posts collection whose keys are canonical      *)
(* decimal integers, each post carrying a full_text, get_tweets returns    *)
(* min(count, n) texts, and the text at position i is the normalised text  *)
(* of the post whose id is the i-th largest number.                        *)
C2_TopCountDescending ==
    (Called /\ count >= 0 /\ WellFormed(seen)) =>
        /\ exc = NoExc
        /\ ret.some
        /\ Len(ret.v) = Min(count, NumPosts(seen))
        /\ \A k \in DOMAIN Posts(seen) :
              Rank(seen, k) <= Len(ret.v) =>
                  ret.v[Rank(seen, k)] = Normalize(TextOf(Posts(seen)[k]))

(* posts "2" and "10", count 1: the text of "10" alone is returned *)
C2_Witness ==
    /\ Called
    /\ count = 1
    /\ WellFormed(seen)
    /\ DOMAIN Posts(seen) = {<<"2">>, <<"1", "0">>}
    /\ Posts(seen)[<<"1", "0">>] = Post(TextA)
    /\ Posts(seen)[<<"2">>] = Post(TextB)
    /\ ret = List(<<<<"a", " ", "b">>>>)

(* C3 as stated: a returned list is never longer than count, for every     *)
(* integer count.                                                          *)
C3_Original == (Called /\ ret.some) => Len(ret.v) <= count

(* C3 as amended: a returned list is never longer than count, for every    *)
(* count >= 0.                                                             *)
C3_LengthWithinCount ==
    (Called /\ ret.some /\ count >= 0) => Len(ret.v) <= count

(* more posts than asked for, and exactly count texts come back *)
C3_Witness ==
    /\ Called
    /\ ret.some
    /\ count > 0
    /\ HasPosts(seen)
    /\ NumPosts(seen) > count
    /\ Len(ret.v) = count

(* C4 as stated: when every key parses as an integer (and every post       *)
(* carries a text) and count exceeds the number of posts, the call         *)
(* succeeds and the texts are those of the posts, one each, by descending  *)
(* id.                                                                     *)
C4_Original ==
    (/\ Called
     /\ HasPosts(seen)
     /\ \A k \in DOMAIN Posts(seen) :
           PyInt(k).ok /\ HasText(Posts(seen)[k])
     /\ count > NumPosts(seen)) =>
        /\ ret.some
        /\ Len(ret.v) = NumPosts(seen)
        /\ \E b \in [DOMAIN Posts(seen) -> 1..NumPosts(seen)] :
              /\ \A j, k \in DOMAIN Posts(seen) : j # k => b[j] # b[k]
              /\ \A j, k \in DOMAIN Posts(seen) :
                    b[j] < b[k] => PyInt(j).v >= PyInt(k).v
              /\ \A k \in DOMAIN Posts(seen) :
                    ret.v[b[k]] = Normalize(TextOf(Posts(seen)[k]))

(* C4 as amended: when every key is a canonical decimal integer, every     *)
(* post carries a full_text and count exceeds the number of posts, the     *)
(* call succeeds with exactly one text per post, by descending id.         *)
C4_AllPostsOnce ==
    (Called /\ WellFormed(seen) /\ count > NumPosts(seen)) =>
        /\ ret.some
        /\ Len(ret.v) = NumPosts(seen)
        /\ \E b \in [DOMAIN Posts(seen) -> 1..NumPosts(seen)] :
              /\ \A j, k \in DOMAIN Posts(seen) : j # k => b[j] # b[k]
              /\ \A j, k \in DOMAIN Posts(seen) :
                    b[j] < b[k] => IdOf(j) > IdOf(k)
              /\ \A k \in DOMAIN Posts(seen) :
                    ret.v[b[k]] = Normalize(TextOf(Posts(seen)[k]))

(* posts "-1" and "7" and a count above 2: both texts, "7" first *)
C4_Witness ==
    /\ Called
    /\ WellFormed(seen)
    /\ DOMAIN Posts(seen) = {<<"-", "1">>, <<"7">>}
    /\ Posts(seen)[<<"7">>] = Post(TextB)
    /\ Posts(seen)[<<"-", "1">>] = Post(TextA)
    /\ count > 2
    /\ ret = List(<<<<"c">>, <<"a", " ", "b">>>>)

(* the ids the list comprehension walks *)
Selected(reply, cnt) ==
    LET keys == KeyList(DOMAIN Posts(reply))
    IN  PySlice(SortDesc([i \in 1..Len(keys) |-> PyInt(keys[i]).v]), cnt)

(* the walk reaches, at position p, a post that lacks full_text *)
MissingTextMetAt(reply, cnt, p) ==
    /\ HasPosts(reply)
    /\ \A k \in DOMAIN Posts(reply) : PyInt(k).ok
    /\ p \in 1..Len(Selected(reply, cnt))
    /\ \A q \in 1..(p - 1) :
          /\ PyStr(Selected(reply, cnt)[q]) \in DOMAIN Posts(reply)
          /\ HasText(Posts(reply)[PyStr(Selected(reply, cnt)[q])])
    /\ PyStr(Selected(reply, cnt)[p]) \in DOMAIN Posts(reply)
    /\ LacksText(Posts(reply)[PyStr(Selected(reply, cnt)[p])])

(* C5: a call gives a list or an exception, never both; when a key of the  *)
(* globalObjects.tweets path is missing, or the walk meets a selected post *)
(* without full_text, the call raises                                      *)
(* FailedToGetTweetsException('Failed to get tweets') and gives no list.   *)
C5_ListOrErrorNeverBoth ==
    Called =>
        /\ ret.some <=> exc = NoExc
        /\ (PathAbsent(seen)
            \/ \E p \in 1..(MaxPosts + 1) : MissingTextMetAt(seen, count, p)) =>
               /\ exc = FailedToGetTweetsException(<<"Failed to get tweets">>)
               /\ ret = NoList

(* the second selected post lacks full_text, the first was normalised *)
C5_Witness ==
    /\ Called
    /\ MissingTextMetAt(seen, count, 2)
    /\ exc.type = "FailedToGetTweetsException"
    /\ ~ret.some

(* C8: whenever get_tweets fails on a reply that parsed as JSON, the       *)
(* exception is FailedToGetTweetsException.                                *)
C8_SingleErrorKind ==
    (Called /\ seen.kind = "json" /\ exc # NoExc) =>
        exc.type = "FailedToGetTweetsException"

(* C9: a returned text whose full_text held line breaks holds no \n and no *)
(* \r, and the other characters of the full_text occur in it in order.     *)
C9_NoLineBreakLeft ==
    (Called /\ ret.some /\ WellFormed(seen)) =>
        \A k \in DOMAIN Posts(seen) :
            (Rank(seen, k) <= Len(ret.v)
             /\ HasBreak(TextOf(Posts(seen)[k]))) =>
                /\ ~HasBreak(ret.v[Rank(seen, k)])
                /\ IsSubseq(SelectSeq(TextOf(Posts(seen)[k]), NotBreak),
                            ret.v[Rank(seen, k)])

(* "a\r\n" comes back as "a" *)
C9_Witness ==
    /\ Called
    /\ seen = TimelineOf(<<"1">> :> Post(<<"a", "\r", "\n">>))
    /\ ret = List(<<<<"a">>>>)

----------------------------------------------------------------------------
(* Properties of the life of an instance, checked under Spec *)

Order ==
    <<"get_guest_token", "get_bearer_token", "get_query_id",
      "UserByScreenName">>

Steps ==
    <<"get_guest_token", "get_bearer_token", "get_query_id", "get_user_id">>

(* C1: when a token accessor raises FailedToGetTwitterValueException, the  *)
(* constructor ends with FailedToGetTweetsException carrying it, neither   *)
(* headers nor user_id is assigned, and no lookup request was issued.      *)
C1_NoPartialConstruction ==
    inner.type = "FailedToGetTwitterValueException" =>
        /\ pc = "failed"
        /\ exc = FailedToGetTweetsException(inner.msg)
        /\ "headers" \notin assigned
        /\ "user_id" \notin assigned
        /\ Occurrences(log, "UserByScreenName") = 0

(* get_query_id fails after the two other accessors succeeded *)
C1_Witness ==
    /\ inner.type = "FailedToGetTwitterValueException"
    /\ log = <<"get_guest_token", "get_bearer_token", "get_query_id">>
    /\ pc = "failed"

(* the lookup reply is a JSON object in which a key of data.user.rest_id   *)
(* is missing                                                              *)
RestIdAbsent(reply) ==
    /\ reply.kind = "json"
    /\ reply.json.t = "obj"
    /\ \/ K("data") \notin DOMAIN reply.json.f
       \/ /\ reply.json.f[K("data")].t = "obj"
          /\ \/ K("user") \notin DOMAIN reply.json.f[K("data")].f
             \/ /\ reply.json.f[K("data")].f[K("user")].t = "obj"
                /\ K("rest_id") \notin
                       DOMAIN reply.json.f[K("data")].f[K("user")].f

RestIdPresent(reply) ==
    /\ reply.kind = "json"
    /\ reply.json.t = "obj"
    /\ K("data") \in DOMAIN reply.json.f
    /\ reply.json.f[K("data")].t = "obj"
    /\ K("user") \in DOMAIN reply.json.f[K("data")].f
    /\ reply.json.f[K("data")].f[K("user")].t = "obj"
    /\ K("rest_id") \in DOMAIN reply.json.f[K("data")].f[K("user")].f

C7_ImmutableAfterConstruction ==
    /\ [](pc = "ready" =>
            /\ \A i \in 1..Len(Order) : Occurrences(log, Order[i]) = 1
            /\ {"gt", "bearer_token", "query_id", "headers", "user_id"}
                   \subseteq assigned
            /\ DOMAIN headers =
                   {"x-guest-token", "authorization", "content-type"}
            /\ headers["x-guest-token"] = <<gt>>
            /\ headers["authorization"] = <<"Bearer ", bearer_token>>
            /\ headers["content-type"] = <<"application/json">>)
    /\ [][pc = "ready" =>
            /\ pc' = "ready"
            /\ UNCHANGED <<gt, bearer_token, query_id, headers, user_id,
                           assigned>>]_vars

(* two calls were made on a constructed instance, one failed, one did not *)
C7_Witness ==
    /\ pc = "ready"
    /\ nCalls = 2
    /\ nFailed = 1

(* C10: the constructor issues get_guest_token, get_bearer_token,          *)
(* get_query_id and the lookup in this order, each at most once, and       *)
(* nothing after a step failed; every get_tweets call issues exactly one   *)
(* timeline request and leaves the instance as it was, whether it raises   *)
(* or not.                                                                 *)
C10_SequencedNoRetry ==
    /\ [](/\ \A i \in 1..Len(log) :
                IF i <= Len(Order) THEN log[i] = Order[i]
                ELSE log[i] = "timeline"
          /\ Occurrences(log, "timeline") = nCalls
          /\ pc = "failed" => (Len(log) <= Len(Order) /\ exc # NoExc)
          /\ (pc \notin {"failed", "ready"}) =>
                (exc = NoExc /\ Len(log) < Len(Order)
                 /\ pc = Steps[Len(log) + 1]))
    /\ [][pc = "failed" => (pc' = "failed" /\ log' = log)]_vars
    /\ [][nCalls' # nCalls =>
            /\ nCalls' = nCalls + 1
            /\ log' = Append(log, "timeline")
            /\ pc = "ready"
            /\ pc' = "ready"
            /\ UNCHANGED fields]_vars

(* a call succeeded after an earlier call on the same instance failed *)
C10_Witness ==
    /\ pc = "ready"
    /\ nFailed >= 1
    /\ nCalls > nFailed
    /\ exc = NoExc
    /\ ret.some
    /\ Len(ret.v) > 0

====
